---- MODULE Spec2Model ----
(***************************************************************************)
(* Subscription service: the six HTTP handlers of handlers/handlers.go     *)
(* over the subscriptions table of the migration, with the request         *)
(* binding rules of the models package.                                    *)
(*                                                                         *)
(* Strings whose characters the code inspects (dates, user ids) are        *)
(* sequences of one-character strings; service names, which the code only  *)
(* compares and tests for emptiness, are plain strings.                    *)
(***************************************************************************)
EXTENDS Integers, Sequences, FiniteSets, TLC

VARIABLES
    table,      \* the rows of the subscriptions table
    last,       \* the request being answered and its response, or NoRequest
    inflight    \* per client, the request a concurrent handler is serving

vars == <<table, last, inflight>>

(***************************************************************************)
(* Bounds and input sets                                                   *)
(***************************************************************************)
MaxRows == 2

Str(a, b, c, d, e, f, g) == <<a, b, c, d, e, f, g>>

Rep(c, n) == [i \in 1..n |-> c]

Uuid(c) == Rep(c, 8) \o <<"-">> \o Rep(c, 4) \o <<"-">> \o Rep(c, 4)
           \o <<"-">> \o Rep(c, 4) \o <<"-">> \o Rep(c, 12)

U1 == Uuid("1")
U2 == Uuid("a")
BadUser == <<"a", "b", "c">>
Empty == <<>>

Jan2024 == Str("0", "1", "-", "2", "0", "2", "4")
May2024 == Str("0", "5", "-", "2", "0", "2", "4")
Jun2024 == Str("0", "6", "-", "2", "0", "2", "4")
Month13 == Str("1", "3", "-", "2", "0", "2", "4")
YearFirst == Str("2", "0", "2", "4", "-", "0", "1")

PathUsers == {U1, U2, BadUser}
UserFilters == {Empty, U1, U2, BadUser}
PathNames == {"Netflix", "Spotify"}
NameFilters == {"", "Netflix", "Spotify"}

\* Request bodies: every body of valid fields, and a valid body with one
\* field at a time made negative, zero, empty or malformed.
GoodBodies ==
    [service_name : PathNames, price : {5, 7},
     start_date : {Jan2024, Jun2024}, end_date : {Empty, May2024}]

BaseBody ==
    [service_name |-> "Netflix", price |-> 5,
     start_date |-> Jan2024, end_date |-> May2024]

FaultyBodies ==
    {[BaseBody EXCEPT !.service_name = ""],
     [BaseBody EXCEPT !.price = -1],
     [BaseBody EXCEPT !.price = 0],
     [BaseBody EXCEPT !.start_date = Empty],
     [BaseBody EXCEPT !.start_date = Month13],
     [BaseBody EXCEPT !.start_date = YearFirst],
     [BaseBody EXCEPT !.end_date = Month13],
     [BaseBody EXCEPT !.end_date = YearFirst]}

Bodies == GoodBodies \cup FaultyBodies

\* Create and Update requests, <<user_id, service_name of the path, body>>:
\* every body under every well-formed path, and a valid body under a path
\* whose user id is malformed.
WriteRequests ==
    ({U1, U2} \X PathNames \X Bodies) \cup ({BadUser} \X PathNames \X {BaseBody})

\* Periods of a total cost request: <<start_date, end_date>>.
Periods ==
    ({May2024, Jun2024} \X {May2024, Jun2024})
    \cup {<<Empty, Jun2024>>, <<Jun2024, Empty>>, <<Empty, Empty>>,
          <<Month13, Jun2024>>, <<Jun2024, YearFirst>>}

(***************************************************************************)
(* Dates: time.Time as year, month, day; sql.NullTime as Valid and Time    *)
(***************************************************************************)
Digits == <<"0", "1", "2", "3", "4", "5", "6", "7", "8", "9">>

IsDigit(c) == \E i \in 1..Len(Digits) : Digits[i] = c

DigitVal(c) == (CHOOSE i \in 1..Len(Digits) : Digits[i] = c) - 1

DigitChar(n) == Digits[n + 1]

ZeroTime == [year |-> 1, month |-> 1, day |-> 1]

\* time.Parse("01-2006", s): two digits of month in 01..12, "-", four digits
\* of year, nothing else.
TimeParse(s) ==
    IF /\ Len(s) = 7
       /\ IsDigit(s[1]) /\ IsDigit(s[2])
       /\ s[3] = "-"
       /\ \A i \in 4..7 : IsDigit(s[i])
       /\ DigitVal(s[1]) * 10 + DigitVal(s[2]) \in 1..12
    THEN [t |-> [year |-> DigitVal(s[4]) * 1000 + DigitVal(s[5]) * 100
                          + DigitVal(s[6]) * 10 + DigitVal(s[7]),
                 month |-> DigitVal(s[1]) * 10 + DigitVal(s[2]),
                 day |-> 1],
          err |-> FALSE]
    ELSE [t |-> ZeroTime, err |-> TRUE]

parseMonthYear(dateStr) ==
    IF dateStr = Empty
    THEN [t |-> ZeroTime, err |-> FALSE]
    ELSE TimeParse(dateStr)

formatMonthYear(t) ==
    <<DigitChar(t.month \div 10), DigitChar(t.month % 10), "-",
      DigitChar((t.year \div 1000) % 10), DigitChar((t.year \div 100) % 10),
      DigitChar((t.year \div 10) % 10), DigitChar(t.year % 10)>>

toFirstDayOfMonth(t) == [year |-> t.year, month |-> t.month, day |-> 1]

NullTime == [Valid |-> FALSE, Time |-> ZeroTime]

SomeTime(t) == [Valid |-> TRUE, Time |-> t]

\* Order of two timestamps.
TimeLE(a, b) ==
    \/ a.year < b.year
    \/ a.year = b.year /\ a.month < b.month
    \/ a.year = b.year /\ a.month = b.month /\ a.day <= b.day

(***************************************************************************)
(* Request binding (models package, gin binding tags)                      *)
(***************************************************************************)
HexChars == {"0", "1", "2", "3", "4", "5", "6", "7", "8", "9",
             "a", "b", "c", "d", "e", "f"}

HyphenAt == {9, 14, 19, 24}

\* binding:"uuid": 8-4-4-4-12 hexadecimal characters.
IsUUID(s) ==
    /\ Len(s) = 36
    /\ \A i \in 1..Len(s) :
          IF i \in HyphenAt THEN s[i] = "-" ELSE s[i] \in HexChars

\* CompositeKey: user_id required,uuid; service_name required.
BindUri(userID, serviceName) ==
    /\ userID # Empty
    /\ IsUUID(userID)
    /\ serviceName # ""

\* SubscriptionRequest: service_name required; price required,min=0;
\* start_date required.  "required" rejects the zero value of the field.
BindJSON(serviceName, price, startDate) ==
    /\ serviceName # ""
    /\ price # 0
    /\ price >= 0
    /\ startDate # Empty

(***************************************************************************)
(* The subscriptions table and the statements the handlers send to it.     *)
(* A statement answers [err, rows, table]: the error of the statement, the *)
(* rows it returns and the table after it.                                 *)
(***************************************************************************)
Key(r) == <<r.user_id, r.service_name>>

Keys(tbl) == {Key(r) : r \in tbl}

Row(serviceName, price, userID, startDate, endDate) ==
    [service_name |-> serviceName, price |-> price, user_id |-> userID,
     start_date |-> startDate, end_date |-> endDate]

\* A uuid column accepts only text of uuid syntax.
UuidIn(s) == IsUUID(s)

StmtError(e, tbl) == [err |-> e, rows |-> {}, table |-> tbl]

StmtOk(rs, tbl) == [err |-> "", rows |-> rs, table |-> tbl]

\* Mutant: the table has no primary key.
InsertNoPrimaryKey(tbl, serviceName, price, userID, startDate, endDate) ==
    IF ~UuidIn(userID) THEN StmtError("invalid uuid", tbl)
    ELSE LET r == Row(serviceName, price, userID, startDate, endDate)
         IN  StmtOk({r}, tbl \cup {r})

\* INSERT ... RETURNING, under PRIMARY KEY (user_id, service_name).
InsertStmt(tbl, serviceName, price, userID, startDate, endDate) ==
    IF ~UuidIn(userID) THEN StmtError("invalid uuid", tbl)
    ELSE IF <<userID, serviceName>> \in Keys(tbl)
    THEN StmtError("unique violation", tbl)
    ELSE LET r == Row(serviceName, price, userID, startDate, endDate)
         IN  StmtOk({r}, tbl \cup {r})

\* Mutant: the WHERE clause of the update lacks "AND service_name = $5".
UpdateByUserStmt(tbl, price, startDate, endDate, userID, serviceName) ==
    IF ~UuidIn(userID) THEN StmtError("invalid uuid", tbl)
    ELSE LET hit == {r \in tbl : r.user_id = userID}
             new == {Row(r.service_name, price, r.user_id, startDate, endDate) : r \in hit}
         IN  StmtOk(new, (tbl \ hit) \cup new)

\* Mutant: the update sets end_date = COALESCE($3, end_date).
UpdateKeepEndDateStmt(tbl, price, startDate, endDate, userID, serviceName) ==
    IF ~UuidIn(userID) THEN StmtError("invalid uuid", tbl)
    ELSE LET hit == {r \in tbl : r.user_id = userID /\ r.service_name = serviceName}
             new == {Row(r.service_name, price, r.user_id, startDate,
                         IF endDate.Valid THEN endDate ELSE r.end_date) : r \in hit}
         IN  StmtOk(new, (tbl \ hit) \cup new)

\* UPDATE ... SET price, start_date, end_date WHERE user_id AND service_name
\* RETURNING.
UpdateStmt(tbl, price, startDate, endDate, userID, serviceName) ==
    IF ~UuidIn(userID) THEN StmtError("invalid uuid", tbl)
    ELSE LET hit == {r \in tbl : r.user_id = userID /\ r.service_name = serviceName}
             new == {Row(r.service_name, price, r.user_id, startDate, endDate) : r \in hit}
         IN  StmtOk(new, (tbl \ hit) \cup new)

\* Mutant: the read is written as the delete's "... RETURNING" statement.
SelectByKeyRemoving(tbl, userID, serviceName) ==
    IF ~UuidIn(userID) THEN StmtError("invalid uuid", tbl)
    ELSE LET hit == {r \in tbl : r.user_id = userID /\ r.service_name = serviceName}
         IN  StmtOk(hit, tbl \ hit)

\* SELECT ... WHERE user_id = $1 AND service_name = $2
SelectByKeyStmt(tbl, userID, serviceName) ==
    IF ~UuidIn(userID) THEN StmtError("invalid uuid", tbl)
    ELSE StmtOk({r \in tbl : r.user_id = userID /\ r.service_name = serviceName}, tbl)

\* SELECT ... WHERE user_id = $1
SelectByUserStmt(tbl, userID) ==
    IF ~UuidIn(userID) THEN StmtError("invalid uuid", tbl)
    ELSE StmtOk({r \in tbl : r.user_id = userID}, tbl)

\* SELECT ... WHERE service_name = $1
SelectByNameStmt(tbl, serviceName) ==
    StmtOk({r \in tbl : r.service_name = serviceName}, tbl)

\* SELECT ... FROM subscriptions
SelectAllStmt(tbl) == StmtOk(tbl, tbl)

\* Mutant: the WHERE clause of the delete lacks "AND service_name = $2".
DeleteByUserStmt(tbl, userID, serviceName) ==
    IF ~UuidIn(userID) THEN StmtError("invalid uuid", tbl)
    ELSE LET hit == {r \in tbl : r.user_id = userID}
         IN  StmtOk(hit, tbl \ hit)

\* DELETE ... WHERE user_id = $1 AND service_name = $2 RETURNING service_name
DeleteStmt(tbl, userID, serviceName) ==
    IF ~UuidIn(userID) THEN StmtError("invalid uuid", tbl)
    ELSE LET hit == {r \in tbl : r.user_id = userID /\ r.service_name = serviceName}
         IN  StmtOk(hit, tbl \ hit)

RECURSIVE SumPrice(_)
SumPrice(rs) ==
    IF rs = {} THEN 0
    ELSE LET r == CHOOSE x \in rs : TRUE
         IN  r.price + SumPrice(rs \ {r})

\* Mutant: the condition lacks "OR end_date IS NULL".
OverlapsWithoutNull(r, startDate, endDate) ==
    /\ TimeLE(r.start_date, endDate)
    /\ r.end_date.Valid /\ TimeLE(startDate, r.end_date.Time)

\* WHERE start_date <= $2 AND (end_date >= $1 OR end_date IS NULL)
Overlaps(r, startDate, endDate) ==
    /\ TimeLE(r.start_date, endDate)
    /\ \/ r.end_date.Valid /\ TimeLE(startDate, r.end_date.Time)
       \/ ~r.end_date.Valid

\* SELECT COALESCE(SUM(price), 0) ... with the conditions the handler
\* appended: byUser for "AND user_id = ", byName for "AND service_name = ".
TotalStmt(tbl, startDate, endDate, byUser, userID, byName, serviceName) ==
    IF byUser /\ ~UuidIn(userID) THEN StmtError("invalid uuid", tbl)
    ELSE StmtOk({SumPrice({r \in tbl :
                    /\ Overlaps(r, startDate, endDate)
                    /\ byUser => r.user_id = userID
                    /\ byName => r.service_name = serviceName})},
                tbl)

(***************************************************************************)
(* The handlers.  Each answers a response: the HTTP status, the body (the  *)
(* records of a record or list body, the echo of a delete, the total), the *)
(* table after the request and the number of statements sent to the store. *)
(***************************************************************************)
StatusOK == 200
StatusCreated == 201
StatusBadRequest == 400
StatusNotFound == 404
StatusInternalServerError == 500

Response(status, recs, del, total, tbl, stmts) ==
    [status |-> status, recs |-> recs, del |-> del, total |-> total,
     table |-> tbl, stmts |-> stmts]

ErrorResponse(status, tbl, stmts) == Response(status, {}, {}, {}, tbl, stmts)

\* models.Subscription as scanned from a row; EndDate stays "" (omitted
\* from the JSON) when the column is null.
Subscription(r) ==
    [service_name |-> r.service_name, price |-> r.price, user_id |-> r.user_id,
     start_date |-> formatMonthYear(r.start_date),
     end_date |-> IF r.end_date.Valid THEN formatMonthYear(r.end_date.Time)
                  ELSE Empty]

\* Mutant: the end date is passed by value, so an empty end date is stored
\* as the zero time instead of null.
EndDateByValue(endDate) ==
    SomeTime(toFirstDayOfMonth(parseMonthYear(endDate).t))

\* The end date the Create and Update handlers pass to the statement.
EndDatePtr(endDate) ==
    IF endDate # Empty
    THEN SomeTime(toFirstDayOfMonth(parseMonthYear(endDate).t))
    ELSE NullTime

\* Mutant: the end date is parsed after the INSERT has run.
CreateSubscriptionLateEndDate(tbl, userID, pathName, serviceName, price, startDate, endDate) ==
    IF ~BindUri(userID, pathName) THEN ErrorResponse(StatusBadRequest, tbl, 0)
    ELSE IF ~BindJSON(serviceName, price, startDate)
    THEN ErrorResponse(StatusBadRequest, tbl, 0)
    ELSE IF parseMonthYear(startDate).err
    THEN ErrorResponse(StatusBadRequest, tbl, 0)
    ELSE LET q == InsertStmt(tbl, serviceName, price, userID,
                             toFirstDayOfMonth(parseMonthYear(startDate).t),
                             EndDatePtr(endDate))
         IN  IF endDate # Empty /\ parseMonthYear(endDate).err
             THEN ErrorResponse(StatusBadRequest, q.table, 1)
             ELSE IF q.err # "" \/ q.rows = {}
             THEN ErrorResponse(StatusInternalServerError, q.table, 1)
             ELSE Response(StatusCreated, {Subscription(r) : r \in q.rows},
                           {}, {}, q.table, 1)

CreateSubscription(tbl, userID, pathName, serviceName, price, startDate, endDate) ==
    IF ~BindUri(userID, pathName) THEN ErrorResponse(StatusBadRequest, tbl, 0)
    ELSE IF ~BindJSON(serviceName, price, startDate)
    THEN ErrorResponse(StatusBadRequest, tbl, 0)
    ELSE IF parseMonthYear(startDate).err
    THEN ErrorResponse(StatusBadRequest, tbl, 0)
    ELSE IF endDate # Empty /\ parseMonthYear(endDate).err
    THEN ErrorResponse(StatusBadRequest, tbl, 0)
    ELSE LET q == InsertStmt(tbl, serviceName, price, userID,
                             toFirstDayOfMonth(parseMonthYear(startDate).t),
                             EndDatePtr(endDate))
         IN  IF q.err # "" \/ q.rows = {}
             THEN ErrorResponse(StatusInternalServerError, q.table, 1)
             ELSE Response(StatusCreated, {Subscription(r) : r \in q.rows},
                           {}, {}, q.table, 1)

UpdateSubscription(tbl, userID, pathName, serviceName, price, startDate, endDate) ==
    IF ~BindUri(userID, pathName) THEN ErrorResponse(StatusBadRequest, tbl, 0)
    ELSE IF ~BindJSON(serviceName, price, startDate)
    THEN ErrorResponse(StatusBadRequest, tbl, 0)
    ELSE IF parseMonthYear(startDate).err
    THEN ErrorResponse(StatusBadRequest, tbl, 0)
    ELSE IF endDate # Empty /\ parseMonthYear(endDate).err
    THEN ErrorResponse(StatusBadRequest, tbl, 0)
    ELSE LET q == UpdateStmt(tbl, price,
                             toFirstDayOfMonth(parseMonthYear(startDate).t),
                             EndDatePtr(endDate), userID, serviceName)
         IN  IF q.err # ""
             THEN ErrorResponse(StatusInternalServerError, q.table, 1)
             ELSE IF q.rows = {}
             THEN ErrorResponse(StatusNotFound, q.table, 1)
             ELSE Response(StatusOK, {Subscription(r) : r \in q.rows},
                           {}, {}, q.table, 1)

GetSubscription(tbl, userID, pathName) ==
    IF ~BindUri(userID, pathName) THEN ErrorResponse(StatusBadRequest, tbl, 0)
    ELSE LET q == SelectByKeyStmt(tbl, userID, pathName)
         IN  IF q.err # ""
             THEN ErrorResponse(StatusInternalServerError, q.table, 1)
             ELSE IF q.rows = {}
             THEN ErrorResponse(StatusNotFound, q.table, 1)
             ELSE Response(StatusOK, {Subscription(r) : r \in q.rows},
                           {}, {}, q.table, 1)

\* Mutant: the delete's "no rows" signal is not turned into 404.
DeleteSubscriptionIgnoreNoRows(tbl, userID, pathName) ==
    IF ~BindUri(userID, pathName) THEN ErrorResponse(StatusBadRequest, tbl, 0)
    ELSE LET q == DeleteStmt(tbl, userID, pathName)
         IN  IF q.err # ""
             THEN ErrorResponse(StatusInternalServerError, q.table, 1)
             ELSE Response(StatusOK, {},
                           {[service_name |-> pathName, user_id |-> userID]},
                           {}, q.table, 1)

DeleteSubscription(tbl, userID, pathName) ==
    IF ~BindUri(userID, pathName) THEN ErrorResponse(StatusBadRequest, tbl, 0)
    ELSE LET q == DeleteStmt(tbl, userID, pathName)
         IN  IF q.err # ""
             THEN ErrorResponse(StatusInternalServerError, q.table, 1)
             ELSE IF q.rows = {}
             THEN ErrorResponse(StatusNotFound, q.table, 1)
             ELSE Response(StatusOK, {},
                           {[service_name |-> r.service_name, user_id |-> userID]
                              : r \in q.rows},
                           {}, q.table, 1)

\* Mutant: the case of the user filter alone comes first in the switch.
ListSubscriptionsUserFirst(tbl, userID, serviceName) ==
    LET q == IF userID # Empty THEN SelectByUserStmt(tbl, userID)
             ELSE IF serviceName # "" THEN SelectByNameStmt(tbl, serviceName)
             ELSE SelectAllStmt(tbl)
    IN  IF q.err # ""
        THEN ErrorResponse(StatusInternalServerError, q.table, 1)
        ELSE Response(StatusOK, {Subscription(r) : r \in q.rows}, {}, {},
                      q.table, 1)

ListSubscriptions(tbl, userID, serviceName) ==
    LET q == IF userID # Empty /\ serviceName # ""
             THEN SelectByKeyStmt(tbl, userID, serviceName)
             ELSE IF userID # Empty THEN SelectByUserStmt(tbl, userID)
             ELSE IF serviceName # "" THEN SelectByNameStmt(tbl, serviceName)
             ELSE SelectAllStmt(tbl)
    IN  IF q.err # ""
        THEN ErrorResponse(StatusInternalServerError, q.table, 1)
        ELSE Response(StatusOK, {Subscription(r) : r \in q.rows}, {}, {},
                      q.table, 1)

GetTotalCost(tbl, userID, serviceName, startDate, endDate) ==
    IF parseMonthYear(startDate).err THEN ErrorResponse(StatusBadRequest, tbl, 0)
    ELSE IF parseMonthYear(endDate).err
    THEN ErrorResponse(StatusBadRequest, tbl, 0)
    ELSE LET byUser == userID # Empty
             byName == serviceName # ""
             q == TotalStmt(tbl, toFirstDayOfMonth(parseMonthYear(startDate).t),
                            toFirstDayOfMonth(parseMonthYear(endDate).t),
                            byUser, userID, byName, serviceName)
         IN  IF q.err # ""
             THEN ErrorResponse(StatusInternalServerError, q.table, 1)
             ELSE Response(StatusOK, {}, {}, q.rows, q.table, 1)

(***************************************************************************)
(* The state machine: a request is handled in one step, which runs the     *)
(* whole handler (binding, parsing, the one statement, the response); the  *)
(* response is then sent and the next request can be handled.  A handler   *)
(* reads and writes the table only in its one auto-committed statement, so *)
(* requests served concurrently act on the table as these steps in the     *)
(* order of their statements.                                              *)
(***************************************************************************)
NoRequest == [op |-> "none"]

\* The clients whose requests are served concurrently, and a client with no
\* request being served.
Clients == {"c1", "c2"}

Idle == [phase |-> "idle"]

Request(op, userID, pathName, serviceName, price, startDate, endDate, r) ==
    [op |-> op, user_id |-> userID, path_name |-> pathName,
     service_name |-> serviceName, price |-> price,
     start_date |-> startDate, end_date |-> endDate,
     status |-> r.status, recs |-> r.recs, del |-> r.del, total |-> r.total,
     stmts |-> r.stmts, before |-> table]

Init ==
    /\ table = {}
    /\ last = NoRequest
    /\ inflight = [c \in Clients |-> Idle]

Create ==
    /\ last = NoRequest
    /\ \E w \in WriteRequests :
          LET u == w[1]
              pn == w[2]
              b == w[3]
              r == CreateSubscription(table, u, pn, b.service_name, b.price,
                                      b.start_date, b.end_date)
          IN  /\ Cardinality(r.table) <= MaxRows
              /\ table' = r.table
              /\ last' = Request("Create", u, pn, b.service_name, b.price,
                                 b.start_date, b.end_date, r)
    /\ UNCHANGED inflight

Update ==
    /\ last = NoRequest
    /\ \E w \in WriteRequests :
          LET u == w[1]
              pn == w[2]
              b == w[3]
              r == UpdateSubscription(table, u, pn, b.service_name, b.price,
                                      b.start_date, b.end_date)
          IN  /\ table' = r.table
              /\ last' = Request("Update", u, pn, b.service_name, b.price,
                                 b.start_date, b.end_date, r)
    /\ UNCHANGED inflight

Get ==
    /\ last = NoRequest
    /\ \E u \in PathUsers, pn \in PathNames :
          LET r == GetSubscription(table, u, pn)
          IN  /\ table' = r.table
              /\ last' = Request("Get", u, pn, "", 0, Empty, Empty, r)
    /\ UNCHANGED inflight

Delete ==
    /\ last = NoRequest
    /\ \E u \in PathUsers, pn \in PathNames :
          LET r == DeleteSubscription(table, u, pn)
          IN  /\ table' = r.table
              /\ last' = Request("Delete", u, pn, "", 0, Empty, Empty, r)
    /\ UNCHANGED inflight

List ==
    /\ last = NoRequest
    /\ \E u \in UserFilters, sn \in NameFilters :
          LET r == ListSubscriptions(table, u, sn)
          IN  /\ table' = r.table
              /\ last' = Request("List", u, "", sn, 0, Empty, Empty, r)
    /\ UNCHANGED inflight

TotalCost ==
    /\ last = NoRequest
    /\ \E u \in UserFilters, sn \in NameFilters, pd \in Periods :
          LET r == GetTotalCost(table, u, sn, pd[1], pd[2])
          IN  /\ table' = r.table
              /\ last' = Request("TotalCost", u, "", sn, 0, pd[1], pd[2], r)
    /\ UNCHANGED inflight

\* The response is written to the client and the handler returns.
Respond ==
    /\ last # NoRequest
    /\ last' = NoRequest
    /\ UNCHANGED <<table, inflight>>

Next == Create \/ Update \/ Get \/ Delete \/ List \/ TotalCost \/ Respond

Spec == Init /\ [][Next]_vars

(***************************************************************************)
(* Concurrent requests.  The runtime serves each request in its own        *)
(* goroutine: a client's request is taken up (Start), its handler runs,    *)
(* and the handler's one auto-committed statement acts on the table        *)
(* atomically at some later moment (Execute), in any order with the        *)
(* statements of the other requests in flight.  Binding and parsing read   *)
(* only the request, so they are evaluated with the statement.  Once no    *)
(* handler is running the clients take their responses (Return).           *)
(*                                                                         *)
(* A request in flight records the table when it was taken up (seen),      *)
(* whether another request was in flight together with it (raced) and,     *)
(* once answered, how many requests of the round were answered before it   *)
(* (order).                                                                *)
(***************************************************************************)
ConcBodies ==
    [service_name : PathNames, price : {5, 7},
     start_date : {Jan2024}, end_date : {Empty}]

ConcRequests ==
    [op : {"Create", "Update"}, user_id : {U1}, path_name : PathNames,
     body : ConcBodies]
    \cup [op : {"Delete"}, user_id : {U1}, path_name : PathNames,
          body : {BaseBody}]

\* The handler the router runs for the request q, over the table tbl.
Handle(tbl, q) ==
    CASE q.op = "Create" ->
            CreateSubscription(tbl, q.user_id, q.path_name, q.body.service_name,
                               q.body.price, q.body.start_date, q.body.end_date)
      [] q.op = "Update" ->
            UpdateSubscription(tbl, q.user_id, q.path_name, q.body.service_name,
                               q.body.price, q.body.start_date, q.body.end_date)
      [] q.op = "Delete" ->
            DeleteSubscription(tbl, q.user_id, q.path_name)

OtherClient(c) == CHOOSE d \in Clients : d # c

InitConc ==
    /\ table = {}
    /\ last = NoRequest
    /\ inflight = [c \in Clients |-> Idle]

Start(c) ==
    /\ inflight[c].phase = "idle"
    /\ \E q \in ConcRequests :
          LET d == OtherClient(c)
              together == inflight[d].phase = "running"
          IN  inflight' =
                 [inflight EXCEPT
                    ![c] = [phase |-> "running", req |-> q,
                            seen |-> table, raced |-> together],
                    ![d] = IF together
                           THEN [inflight[d] EXCEPT !.raced = TRUE]
                           ELSE inflight[d]]
    /\ UNCHANGED <<table, last>>

Execute(c) ==
    /\ inflight[c].phase = "running"
    /\ LET r == Handle(table, inflight[c].req)
       IN  /\ table' = r.table
           /\ inflight' =
                 [inflight EXCEPT
                    ![c] = [phase |-> "answered", req |-> inflight[c].req,
                            seen |-> inflight[c].seen,
                            raced |-> inflight[c].raced,
                            status |-> r.status, recs |-> r.recs,
                            del |-> r.del,
                            order |-> Cardinality({d \in Clients :
                                         inflight[d].phase = "answered"})]]
    /\ UNCHANGED last

Return ==
    /\ \A c \in Clients : inflight[c].phase # "running"
    /\ \E c \in Clients : inflight[c].phase = "answered"
    /\ inflight' = [c \in Clients |-> Idle]
    /\ UNCHANGED <<table, last>>

NextConc == (\E c \in Clients : Start(c) \/ Execute(c)) \/ Return

SpecConc == InitConc /\ [][NextConc]_vars

(***************************************************************************)
(* Vocabulary of the properties                                            *)
(***************************************************************************)
AllKeys == {U1, U2} \X PathNames

\* The text is a month in MM-YYYY form.
IsMonthYear(s) == s # Empty /\ ~TimeParse(s).err

\* Months since year 0 of a timestamp, and of a text in MM-YYYY form.
MonthIndex(t) == t.year * 12 + t.month

MonthOfText(s) == MonthIndex(TimeParse(s).t)

\* The request that was answered passed binding and date parsing.
ReachedStore == last.stmts = 1

PathKey == <<last.user_id, last.path_name>>

BodyKey == <<last.user_id, last.service_name>>

\* The record a Create or Update request describes, as a response body.
RequestedRecord ==
    [service_name |-> last.service_name, price |-> last.price,
     user_id |-> last.user_id, start_date |-> last.start_date,
     end_date |-> last.end_date]

\* The record counts towards the total of the request that was answered.
C1_Qualifies(r) ==
    /\ last.user_id # Empty => r.user_id = last.user_id
    /\ last.service_name # "" => r.service_name = last.service_name
    /\ MonthIndex(r.start_date) <= MonthOfText(last.end_date)
    /\ \/ ~r.end_date.Valid
       \/ MonthIndex(r.end_date.Time) >= MonthOfText(last.start_date)

(***************************************************************************)
(* C1. For a total cost request with a valid period (both dates in MM-YYYY *)
(* form) and well-formed filters, the answer is 200 and the total is the   *)
(* sum of price over the stored records that match every supplied filter,  *)
(* started no later than the requested end month and either have no end    *)
(* date or end no earlier than the requested start month; it is 0 when no  *)
(* record qualifies.                                                       *)
(***************************************************************************)
C1_TotalCostIsOverlapSum ==
    (/\ last.op = "TotalCost"
     /\ IsMonthYear(last.start_date) /\ IsMonthYear(last.end_date)
     /\ (last.user_id = Empty \/ IsUUID(last.user_id)))
    => /\ last.status = StatusOK
       /\ last.total = {SumPrice({r \in last.before : C1_Qualifies(r)})}
       /\ ({r \in last.before : C1_Qualifies(r)} = {} => last.total = {0})
       /\ table = last.before

\* Period 06-2024..06-2024 over an open-ended record started 01-2024 and a
\* record ended 05-2024: only the first is counted.
C1_Witness ==
    /\ last.op = "TotalCost"
    /\ last.start_date = Jun2024 /\ last.end_date = Jun2024
    /\ last.user_id = Empty /\ last.service_name = ""
    /\ \E r1, r2 \in last.before :
          /\ r1.start_date = TimeParse(Jan2024).t /\ ~r1.end_date.Valid
          /\ r2.end_date = SomeTime(TimeParse(May2024).t)
          /\ last.total = {r1.price}

(***************************************************************************)
(* C2. A total cost request in which start_date or end_date is missing or  *)
(* not in MM-YYYY form is answered 400 and carries no total.               *)
(***************************************************************************)
C2_TotalCostRequiresBothDates ==
    (/\ last.op = "TotalCost"
     /\ (~IsMonthYear(last.start_date) \/ ~IsMonthYear(last.end_date)))
    => /\ last.status = StatusBadRequest
       /\ last.total = {}

(***************************************************************************)
(* C3. The table never holds two records with the same                     *)
(* (user_id, service_name); a Create for a pair that is already stored     *)
(* never answers 201, answers 500 once it reaches the store, and leaves    *)
(* the table as it was.                                                    *)
(***************************************************************************)
C3_UniqueKey ==
    /\ \A r1, r2 \in table : Key(r1) = Key(r2) => r1 = r2
    /\ (last.op = "Create" /\ BodyKey \in Keys(last.before))
       => /\ last.status # StatusCreated
          /\ ReachedStore => last.status = StatusInternalServerError
          /\ table = last.before

C3_Witness ==
    /\ last.op = "Create"
    /\ BodyKey \in Keys(last.before)
    /\ last.status = StatusInternalServerError
    /\ \E r \in table : Key(r) = BodyKey /\ r.price # last.price

\* The Create or Update request that was answered has a field that the
\* validation rules reject.
C4_Invalid ==
    \/ last.price < 0
    \/ last.service_name = ""
    \/ last.start_date = Empty
    \/ ~IsMonthYear(last.start_date)
    \/ (last.end_date # Empty /\ ~IsMonthYear(last.end_date))
    \/ ~IsUUID(last.user_id)

(***************************************************************************)
(* C4. A Create or Update request is answered 400 if and only if its price *)
(* is negative, its service_name or start_date is missing, its start_date  *)
(* or non-empty end_date is not in MM-YYYY form, or its user_id is not a   *)
(* well-formed UUID.                                                       *)
(***************************************************************************)
C4_RejectedIffInvalid ==
    last.op \in {"Create", "Update"}
    => /\ last.status = StatusBadRequest <=> C4_Invalid
       /\ ~C4_Invalid => ReachedStore

(***************************************************************************)
(* C5. An Update that passes validation and is sent to a path key          *)
(* (user_id, service_name) that is not stored answers 404 and changes no   *)
(* record; sent to a path key that is stored it answers 200, updates that  *)
(* record and returns it.                                                  *)
(***************************************************************************)
C5_UpdateByPathKey ==
    (last.op = "Update" /\ ReachedStore)
    => IF PathKey \notin Keys(last.before)
       THEN last.status = StatusNotFound /\ table = last.before
       ELSE /\ last.status = StatusOK
            /\ \A x \in last.recs : <<x.user_id, x.service_name>> = PathKey

(***************************************************************************)
(* C6. Every request whose user_id (path parameter, or non-empty query     *)
(* parameter) is not a well-formed UUID is answered 400 and sends no       *)
(* statement to the store.                                                 *)
(***************************************************************************)
C6_BadUserIdRejected ==
    (/\ last.op # "none"
     /\ last.user_id # Empty \/ last.op \notin {"List", "TotalCost"}
     /\ ~IsUUID(last.user_id))
    => /\ last.status = StatusBadRequest
       /\ last.stmts = 0

(***************************************************************************)
(* C7. A Create answered 201 stored one new record under the key (user_id  *)
(* of the path, service_name of the body); its response, and the response  *)
(* of a Get on the key of the returned record right after it, is 200 with  *)
(* the service_name, user_id, price, start_date and end_date of the        *)
(* request, the dates in MM-YYYY form and end_date absent when it was      *)
(* empty in the request.                                                   *)
(***************************************************************************)
C7_CreateThenGetRoundTrips ==
    (last.op = "Create" /\ last.status = StatusCreated)
    => /\ last.recs = {RequestedRecord}
       /\ BodyKey \notin Keys(last.before)
       /\ \E r \in table : Key(r) = BodyKey /\ table = last.before \cup {r}
       /\ \A x \in last.recs :
             LET g == GetSubscription(table, x.user_id, x.service_name)
             IN  /\ g.status = StatusOK
                 /\ g.recs = {RequestedRecord}
                 /\ g.table = table

C7_Witness ==
    /\ last.op = "Create" /\ last.status = StatusCreated
    /\ last.path_name # last.service_name
    /\ last.end_date = Empty
    /\ last.before # {}

\* One step, seen from the keys that are not stored before it.
C8_Step ==
    /\ (last'.op = "Delete" /\ last'.status = StatusOK)
       => /\ \E r \in table :
                /\ Key(r) = <<last'.user_id, last'.path_name>>
                /\ table' = table \ {r}
          /\ <<last'.user_id, last'.path_name>> \notin Keys(table')
          /\ GetSubscription(table', last'.user_id, last'.path_name).status
                = StatusNotFound
    /\ (/\ last'.op = "Delete"
        /\ IsUUID(last'.user_id)
        /\ <<last'.user_id, last'.path_name>> \notin Keys(table))
       => /\ last'.status = StatusNotFound
          /\ table' = table
    /\ \A k \in AllKeys :
          (/\ k \notin Keys(table)
           /\ ~(/\ last'.op = "Create"
                /\ last'.status = StatusCreated
                /\ <<last'.user_id, last'.service_name>> = k))
          => /\ k \notin Keys(table')
             /\ (last'.op = "Get" /\ <<last'.user_id, last'.path_name>> = k)
                => last'.status = StatusNotFound

(***************************************************************************)
(* C8. A Delete answered 200 removed exactly the record of its key and a   *)
(* Get on that key answers 404; a Delete on a key that is not stored       *)
(* answers 404 and removes nothing; a key that is not stored stays not     *)
(* stored, and every Get on it answers 404, until a Create answered 201    *)
(* stores it.                                                              *)
(***************************************************************************)
C8_DeleteThenGetNotFound == [][C8_Step]_vars

\* A Delete answered 200 that left another record in the table.
C8_Witness ==
    /\ last.op = "Delete" /\ last.status = StatusOK
    /\ Cardinality(last.before) = 2
    /\ Cardinality(table) = 1

(***************************************************************************)
(* The frame of an Update as the statement selects its record, by the key  *)
(* (user_id of the path, service_name of the body): an Update answered 200 *)
(* leaves the set of keys as it was, gives that one record the price and   *)
(* dates of the request, returns it, and leaves every other record         *)
(* unchanged.                                                              *)
(***************************************************************************)
UpdateFrameByBodyKey ==
    (last.op = "Update" /\ last.status = StatusOK)
    => /\ Keys(table) = Keys(last.before)
       /\ Cardinality(table) = Cardinality(last.before)
       /\ \E old \in last.before, new \in table :
             /\ Key(old) = BodyKey /\ Key(new) = Key(old)
             /\ table \ {new} = last.before \ {old}
             /\ last.recs = {Subscription(new)}
       /\ last.recs = {RequestedRecord}

(***************************************************************************)
(* C9. An Update answered 200 leaves the set of keys as it was, returns a  *)
(* record with the key the request was sent to (user_id and service_name   *)
(* of the path), and leaves every record with another key unchanged.       *)
(***************************************************************************)
C9_UpdateChangesOnlyAddressed ==
    (last.op = "Update" /\ last.status = StatusOK)
    => /\ Keys(table) = Keys(last.before)
       /\ \A x \in last.recs : <<x.user_id, x.service_name>> = PathKey
       /\ \A r \in last.before : Key(r) # PathKey => r \in table

\* The record matches the filters of the request that was answered.
C10_Matches(r) ==
    /\ last.user_id # Empty => r.user_id = last.user_id
    /\ last.service_name # "" => r.service_name = last.service_name

(***************************************************************************)
(* C10. A List with well-formed filters answers 200 with exactly the       *)
(* stored records that match every supplied filter: both, the one given,   *)
(* or, with no filter, every record of the table.                          *)
(***************************************************************************)
C10_ListReturnsMatches ==
    (last.op = "List" /\ (last.user_id = Empty \/ IsUUID(last.user_id)))
    => /\ last.status = StatusOK
       /\ last.recs = {Subscription(r) : r \in {x \in last.before : C10_Matches(x)}}
       /\ {<<x.user_id, x.service_name>> : x \in last.recs}
             = {k \in Keys(last.before) :
                   /\ last.user_id # Empty => k[1] = last.user_id
                   /\ last.service_name # "" => k[2] = last.service_name}
       /\ table = last.before

\* Both filters given, over two records of the user: one is returned.
C10_Witness ==
    /\ last.op = "List"
    /\ last.user_id # Empty /\ last.service_name # ""
    /\ Cardinality({r \in last.before : r.user_id = last.user_id}) = 2
    /\ Cardinality(last.recs) = 1

(***************************************************************************)
(* C11. Whenever a request is answered 400, 404 or 500 the table after it  *)
(* is the table before it, and a request answered 400 has sent no          *)
(* statement to the store.                                                 *)
(***************************************************************************)
C11_NoPartialFailure ==
    (/\ last.op # "none"
     /\ last.status \in {StatusBadRequest, StatusNotFound,
                         StatusInternalServerError})
    => /\ table = last.before
       /\ last.recs = {} /\ last.del = {} /\ last.total = {}
       /\ last.status = StatusBadRequest => last.stmts = 0

\* An Update answered 404 over a table that holds records.
C11_Witness ==
    /\ last.op = "Update"
    /\ last.status = StatusNotFound
    /\ last.before # {}
    /\ table = last.before

\* The status and body a Get on key k answers over the table tbl.
C12_GetAnswer(tbl, k) ==
    LET g == GetSubscription(tbl, k[1], k[2])
    IN  <<g.status, g.recs>>

\* The step is a Create, Update or Delete whose statement names key k.
C12_WriteOf(k) ==
    \/ last'.op \in {"Create", "Update"}
       /\ <<last'.user_id, last'.service_name>> = k
    \/ last'.op = "Delete" /\ <<last'.user_id, last'.path_name>> = k

C12_Step ==
    /\ last'.op \in {"Get", "List", "TotalCost"} => table' = table
    /\ last'.op = "Get"
       => C12_GetAnswer(table', <<last'.user_id, last'.path_name>>)
             = <<last'.status, last'.recs>>
    /\ \A k \in AllKeys :
          ~C12_WriteOf(k) => C12_GetAnswer(table', k) = C12_GetAnswer(table, k)

(***************************************************************************)
(* C12. Get, List and TotalCost never change the table; a Get repeated     *)
(* right after a Get answers the same status and body; and the answer of a *)
(* Get on a key is the same before and after every step that is not a      *)
(* Create, Update or Delete of that key.                                   *)
(***************************************************************************)
C12_ReadsAreIdempotent == [][C12_Step]_vars

\* A Get answered 200 over a table of two records.
C12_Witness ==
    /\ last.op = "Get"
    /\ last.status = StatusOK
    /\ Cardinality(table) = 2
    /\ table = last.before

\* Record r of the table is counted by a total cost request without filters
\* for the period pd: the total is its price more than the total without it.
C13_Counted(r, pd) ==
    LET with == GetTotalCost(table, Empty, "", pd[1], pd[2])
        without == GetTotalCost(table \ {r}, Empty, "", pd[1], pd[2])
    IN  /\ with.status = StatusOK
        /\ with.total = {t + r.price : t \in without.total}

(***************************************************************************)
(* C13. A Create or Update request with an empty end_date is answered 400  *)
(* only for another field; answered 201 or 200 it leaves the record of its *)
(* key with a null end date (also when the record had an end date), its    *)
(* response has no end_date, and the record is counted by TotalCost for    *)
(* every valid period whose end month is not before the record's start     *)
(* month.                                                                  *)
(***************************************************************************)
C13_EmptyEndDateIsOpenEnded ==
    (last.op \in {"Create", "Update"} /\ last.end_date = Empty)
    => /\ last.status = StatusBadRequest
          => \/ ~IsUUID(last.user_id)
             \/ last.service_name = ""
             \/ last.price <= 0
             \/ ~IsMonthYear(last.start_date)
       /\ last.status \in {StatusOK, StatusCreated}
          => /\ \A x \in last.recs : x.end_date = Empty
             /\ \E r \in table :
                   /\ Key(r) = BodyKey
                   /\ ~r.end_date.Valid
                   /\ \A pd \in Periods :
                         (/\ IsMonthYear(pd[1]) /\ IsMonthYear(pd[2])
                          /\ MonthOfText(pd[2]) >= MonthIndex(r.start_date))
                         => C13_Counted(r, pd)

\* An Update with an empty end_date on a record that had an end date.
C13_Witness ==
    /\ last.op = "Update"
    /\ last.status = StatusOK
    /\ last.end_date = Empty
    /\ \E old \in last.before : Key(old) = BodyKey /\ old.end_date.Valid

\* Requests a and b were in flight together, on a key stored at that time.
C14_RaceOn(a, b, k) ==
    /\ a.phase # "idle" /\ b.phase # "idle"
    /\ a.raced /\ b.raced
    /\ k \in Keys(a.seen) /\ k \in Keys(b.seen)

C14_DeleteOf(a, k) ==
    a.req.op = "Delete" /\ <<a.req.user_id, a.req.path_name>> = k

\* An Update whose statement names the key k (the key of its WHERE clause),
\* whatever path it was sent to.
C14_UpdateOf(a, k) ==
    /\ a.req.op = "Update"
    /\ <<a.req.user_id, a.req.body.service_name>> = k

C14_UpdatedRecord(a) ==
    [service_name |-> a.req.body.service_name, price |-> a.req.body.price,
     user_id |-> a.req.user_id, start_date |-> a.req.body.start_date,
     end_date |-> a.req.body.end_date]

(***************************************************************************)
(* C14. Of two Deletes in flight together on one stored key, the first to  *)
(* run answers 200 and the other 404.  Of an Update and a Delete in flight *)
(* together on one stored key, the Delete answers 200 and the Update       *)
(* answers 200 with the updated record if its statement ran before the     *)
(* Delete's and 404 if it ran after, never 500; and once the Delete has    *)
(* run the key is not stored.                                              *)
(***************************************************************************)
C14_RacesOnOneKey ==
    \A c, d \in Clients : \A k \in AllKeys :
       LET a == inflight[c]
           b == inflight[d]
       IN  (c # d /\ C14_RaceOn(a, b, k))
           => /\ (/\ C14_DeleteOf(a, k) /\ C14_DeleteOf(b, k)
                  /\ a.phase = "answered")
                 => /\ k \notin Keys(table)
                    /\ IF b.phase = "answered"
                       THEN /\ {a.status, b.status} = {StatusOK, StatusNotFound}
                            /\ a.status = StatusOK <=> a.order < b.order
                       ELSE a.status = StatusOK
              /\ (/\ C14_UpdateOf(a, k) /\ C14_DeleteOf(b, k)
                  /\ a.phase = "answered")
                 => /\ a.status \in {StatusOK, StatusNotFound}
                    /\ a.status = StatusOK => a.recs = {C14_UpdatedRecord(a)}
                    /\ IF b.phase = "answered"
                       THEN a.status = StatusOK <=> a.order < b.order
                       ELSE a.status = StatusOK /\ k \in Keys(table)
              /\ (/\ C14_UpdateOf(a, k) /\ C14_DeleteOf(b, k)
                  /\ b.phase = "answered")
                 => /\ b.status = StatusOK
                    /\ k \notin Keys(table)

\* Two Deletes in flight together on a stored key, both answered, and an
\* Update that ran after the Delete it raced with.
C14_Witness ==
    \E c, d \in Clients : \E k \in AllKeys :
       LET a == inflight[c]
           b == inflight[d]
       IN  /\ c # d /\ C14_RaceOn(a, b, k)
           /\ C14_DeleteOf(a, k) /\ C14_DeleteOf(b, k)
           /\ a.phase = "answered" /\ b.phase = "answered"
           /\ a.status = StatusOK /\ b.status = StatusNotFound
           /\ Cardinality(a.seen) = 2

====
